---- MODULE Spec2Model ----
(***************************************************************************)
(* Real-time alert delivery of sw-alert-system: the per-instance session   *)
(* registry (clients), the token gate of the connection handler, the       *)
(* heartbeat sweep, the Redis fan-out bridge and the trigger-alert         *)
(* gateway.  Two server instances share one directory (MongoDB) and one    *)
(* bus channel (Redis).                                                    *)
(***************************************************************************)
EXTENDS Integers, Sequences, FiniteSets, TLC

\* ---------------------------------------------------------------- universe

Instances == {"i1", "i2"}

\* Connection handles; each is accepted by one server instance.
Conns == {"c1", "c2", "c3"}

InstOf(c) == IF c = "c3" THEN "i2" ELSE "i1"

DeviceIds == {"d1", "d2"}

Addrs == {"a1", "a2"}

\* The token query parameter of the connection URL.
Tokens == {"absent", "empty", "invalid", "valid"}

\* Bounds of the exploration.
MaxRegs == 2

MaxReqs == 1

MaxIps == 2

MaxBus == 2

\* ---------------------------------------------------------------- messages

\* A client frame: parses says whether JSON.parse succeeds; a missing or
\* empty field is the empty string (falsy in the handler's test).
RegisterMsg(d, a) == [parses |-> TRUE, type |-> "register", deviceId |-> d, ip |-> a]

ValidMsgs == {RegisterMsg(d, a) : d \in DeviceIds, a \in Addrs}

InvalidMsgs ==
  { [parses |-> FALSE, type |-> "", deviceId |-> "", ip |-> ""],
    [parses |-> TRUE, type |-> "hello", deviceId |-> "d1", ip |-> "a1"],
    RegisterMsg("", "a1"),
    RegisterMsg("d1", "") }

ClientMsgs == ValidMsgs \cup InvalidMsgs

Truthy(x) == x # ""

\* data.type === 'register' && data.deviceId && data.ip, inside the try block
IsRegistration(m) ==
  m.parses /\ m.type = "register" /\ Truthy(m.deviceId) /\ Truthy(m.ip)

AckMsg == [type |-> "registered", status |-> "success"]

\* The directory's record of a deviceId: its lastKnownIp, empty when there is
\* no document.  lastSeen is not modelled.
NoRecord == ""

\* A message handler suspended at its await: the ws, deviceId and ip it closed over.
Upsert(c, d, a) == [ws |-> c, deviceId |-> d, ip |-> a]

Upserts == {Upsert(c, d, a) : c \in Conns, d \in DeviceIds, a \in Addrs}

\* ---------------------------------------------------------------- state

VARIABLES
  readyState,   \* c -> "NEW" | "OPEN" | "CLOSING" | "CLOSED"
  closeCode,    \* c -> code passed to ws.close by the gate, 0 if none
  urlToken,     \* c -> the token parameter of its URL, "none" before it connects
  listening,    \* c -> the pong/message/close handlers are attached
  isAlive,      \* c -> "undefined" | "true" | "false"
  clients,      \* instance -> insertion-ordered Map deviceId -> {ws, ip}
  pending,      \* Upsert -> number of handlers suspended at await Device.findOneAndUpdate
  directory,    \* deviceId -> DeviceRecord
  sent,         \* c -> frames the server sent on the connection
  inbox,        \* instance -> bus messages not yet handled by its subscriber
  req,          \* the trigger-alert request in progress or last answered
  pingState,    \* c -> "idle" | "sent" | "unsent" | "answered": the last ping
  silent,       \* c -> the peer has stopped answering
  silentSweeps, \* c -> sweeps run since the peer went silent
  killed,       \* c -> terminated by the heartbeat sweep
  ignored,      \* c -> kind of the last frame that no handler processed
  lastReg,      \* deviceId -> ip of the most recently handled registration
  dropped,      \* instance -> bus messages its subscriber has dropped
  interval,     \* instance -> "set" | "cleared": the heartbeat timer
  wssClosed,    \* instance -> its WebSocket server has emitted 'close'
  errored,      \* c -> the socket has emitted 'error'
  nRegs, nReqs, nBus

vars == << readyState, closeCode, urlToken, listening, isAlive, clients, pending,
           directory, sent, inbox, req, pingState, silent, silentSweeps,
           killed, ignored, lastReg, dropped, interval, wssClosed, errored,
           nRegs, nReqs, nBus >>

connVars == << readyState, closeCode, urlToken, listening, isAlive >>

beatVars == << pingState, silent, silentSweeps, killed >>

gateVars == << req, nReqs >>

busVars == << dropped, nBus >>

srvVars == << interval, wssClosed, errored >>

\* No request yet: the fields of a request, all empty.
IdleReq ==
  [phase |-> "idle", inst |-> "i1",
   body |-> [ips |-> [kind |-> "absent", elems |-> <<>>], message |-> "", title |-> ""],
   idx |-> 0, publishedCount |-> 0, published |-> <<>>, code |-> 0,
   reported |-> <<>>,
   payload |-> [type |-> "", title |-> "", message |-> "", timestamp |-> 0]]

Init ==
  /\ readyState = [c \in Conns |-> "NEW"]
  /\ closeCode = [c \in Conns |-> 0]
  /\ urlToken = [c \in Conns |-> "none"]
  /\ listening = [c \in Conns |-> FALSE]
  /\ isAlive = [c \in Conns |-> "undefined"]
  /\ clients = [i \in Instances |-> <<>>]
  /\ pending = [p \in Upserts |-> 0]
  /\ directory = [d \in DeviceIds |-> NoRecord]
  /\ sent = [c \in Conns |-> <<>>]
  /\ inbox = [i \in Instances |-> <<>>]
  /\ req = IdleReq
  /\ pingState = [c \in Conns |-> "idle"]
  /\ silent = [c \in Conns |-> FALSE]
  /\ silentSweeps = [c \in Conns |-> 0]
  /\ killed = [c \in Conns |-> FALSE]
  /\ ignored = [c \in Conns |-> "none"]
  /\ lastReg = [d \in DeviceIds |-> ""]
  /\ dropped = [i \in Instances |-> 0]
  /\ interval = [i \in Instances |-> "set"]
  /\ wssClosed = [i \in Instances |-> FALSE]
  /\ errored = [c \in Conns |-> FALSE]
  /\ nRegs = 0
  /\ nReqs = 0
  /\ nBus = 0

\* ---------------------------------------------------------------- gate

\* if (!token): a missing or an empty token parameter
NoToken(token) == token \in {"absent", "empty"}

\* jwt.verify(token, JWT_SECRET) throws for anything but a valid token
JwtVerifyThrows(token) == token # "valid"

\* A gate with one close code for every rejection.
GateCodeOneCode(token) ==
  IF NoToken(token) THEN 4001
  ELSE IF JwtVerifyThrows(token) THEN 4001
  ELSE 0

\* The close code of the gate, 0 when the connection proceeds.
GateCode(token) ==
  IF NoToken(token) THEN 4001
  ELSE IF JwtVerifyThrows(token) THEN 4003
  ELSE 0

\* A gate that closes the socket and still goes on to attach the handlers.
GateNeverReturns(code) == FALSE

\* The return statements after ws.close: a rejected connection gets no handler.
GateReturns(code) == code # 0

\* wss.on('connection'): the token gate, then isAlive = true and the handlers.
\* A server that has closed accepts no connection.
Connect(c, token) ==
  /\ readyState[c] = "NEW"
  /\ ~wssClosed[InstOf(c)]
  /\ urlToken' = [urlToken EXCEPT ![c] = token]
  /\ closeCode' = [closeCode EXCEPT ![c] = GateCode(token)]
  /\ readyState' = [readyState EXCEPT
                      ![c] = IF GateCode(token) = 0 THEN "OPEN" ELSE "CLOSING"]
  /\ IF GateReturns(GateCode(token))
       THEN UNCHANGED << isAlive, listening >>
       ELSE /\ isAlive' = [isAlive EXCEPT ![c] = "true"]
            /\ listening' = [listening EXCEPT ![c] = TRUE]
  /\ UNCHANGED << clients, pending, directory, sent, inbox, ignored, lastReg, nRegs >>
  /\ UNCHANGED beatVars
  /\ UNCHANGED gateVars
  /\ UNCHANGED busVars
  /\ UNCHANGED srvVars

\* ---------------------------------------------------------------- registry

Entry(d, c, a) == [deviceId |-> d, ws |-> c, ip |-> a]

HasKey(map, d) == \E k \in 1..Len(map) : map[k].deviceId = d

\* A registration that puts nothing in the registry before its upsert.
MapSetDeferred(map, e) == map

\* A registry that never replaces: every registration adds an entry.
MapSetAppendOnly(map, e) == Append(map, e)

\* Map.prototype.set: a present key keeps its place, a new key goes last.
MapSet(map, e) ==
  IF HasKey(map, e.deviceId)
    THEN [k \in 1..Len(map) |-> IF map[k].deviceId = e.deviceId THEN e ELSE map[k]]
    ELSE Append(map, e)

RemoveAt(map, k) ==
  [j \in 1..(Len(map) - 1) |-> IF j < k THEN map[j] ELSE map[j + 1]]

Holds(map, c) == {k \in 1..Len(map) : map[k].ws = c}

\* Index of the first entry whose ws is c (the loop of the close handler).
FirstOf(map, c) == CHOOSE k \in Holds(map, c) : \A j \in Holds(map, c) : k <= j

\* A close handler that empties the registry.
CloseHandlerClears(map, c) == <<>>

\* ws.on('close'): delete the first entry that holds ws, then break.
CloseHandler(map, c) ==
  IF Holds(map, c) = {} THEN map ELSE RemoveAt(map, FirstOf(map, c))

\* Frames reach the server while the socket is open, and on a connection the
\* gate closed until the close handshake completes.
CanReceive(c) ==
  \/ readyState[c] = "OPEN"
  \/ readyState[c] = "CLOSING" /\ closeCode[c] # 0

MsgKind(m) == IF IsRegistration(m) THEN "register" ELSE "invalid"

\* A handler that closes the socket on a frame it does not accept.
OnInvalidFrameCloses(state) == "CLOSING"

\* The else branch and the catch block of the message handler only log: the
\* socket is left in the state it is in.
OnInvalidFrame(state) == state

\* ws.on('message') up to its await: clients.set, then the upsert is issued.
\* A frame on a connection without handlers, or an invalid frame, is dropped.
ClientMessage(c, m) ==
  /\ CanReceive(c)
  /\ IF listening[c] /\ IsRegistration(m)
       THEN /\ nRegs < MaxRegs
            /\ clients' = [clients EXCEPT
                 ![InstOf(c)] = MapSet(@, Entry(m.deviceId, c, m.ip))]
            /\ pending' = [pending EXCEPT ![Upsert(c, m.deviceId, m.ip)] = @ + 1]
            /\ lastReg' = [lastReg EXCEPT ![m.deviceId] = m.ip]
            /\ nRegs' = nRegs + 1
            /\ UNCHANGED ignored
       ELSE /\ ignored' = [ignored EXCEPT ![c] = MsgKind(m)]
            /\ UNCHANGED << clients, pending, lastReg, nRegs >>
  /\ readyState' = IF listening[c] /\ ~IsRegistration(m)
                     THEN [readyState EXCEPT ![c] = OnInvalidFrame(@)]
                     ELSE readyState
  /\ UNCHANGED << closeCode, urlToken, listening, isAlive >>
  /\ UNCHANGED << directory, sent, inbox >>
  /\ UNCHANGED beatVars
  /\ UNCHANGED gateVars
  /\ UNCHANGED busVars
  /\ UNCHANGED srvVars

\* ws.send: a frame goes out only on an OPEN socket.
WsSend(out, c, frame) ==
  IF readyState[c] = "OPEN" THEN [out EXCEPT ![c] = Append(@, frame)] ELSE out

\* Device.findOneAndUpdate resolved: the record is written, the handler
\* resumes and acknowledges.
UpsertDone(p) ==
  /\ pending[p] > 0
  /\ pending' = [pending EXCEPT ![p] = @ - 1]
  /\ directory' = [directory EXCEPT ![p.deviceId] = p.ip]
  /\ sent' = WsSend(sent, p.ws, AckMsg)
  /\ UNCHANGED << clients, inbox, ignored, lastReg, nRegs >>
  /\ UNCHANGED connVars
  /\ UNCHANGED beatVars
  /\ UNCHANGED gateVars
  /\ UNCHANGED busVars
  /\ UNCHANGED srvVars

\* Device.findOneAndUpdate rejected: the catch block logs, nothing is sent.
UpsertFail(p) ==
  /\ pending[p] > 0
  /\ pending' = [pending EXCEPT ![p] = @ - 1]
  /\ UNCHANGED << clients, directory, sent, inbox, ignored, lastReg, nRegs >>
  /\ UNCHANGED connVars
  /\ UNCHANGED beatVars
  /\ UNCHANGED gateVars
  /\ UNCHANGED busVars
  /\ UNCHANGED srvVars

\* The peer closes or drops the socket.
PeerClose(c) ==
  /\ readyState[c] = "OPEN"
  /\ readyState' = [readyState EXCEPT ![c] = "CLOSING"]
  /\ UNCHANGED << closeCode, urlToken, listening, isAlive >>
  /\ UNCHANGED << clients, pending, directory, sent, inbox, ignored, lastReg, nRegs >>
  /\ UNCHANGED beatVars
  /\ UNCHANGED gateVars
  /\ UNCHANGED busVars
  /\ UNCHANGED srvVars

\* The socket is gone: the 'close' event, with the handler if one is attached.
CloseEvent(c) ==
  /\ readyState[c] = "CLOSING"
  /\ readyState' = [readyState EXCEPT ![c] = "CLOSED"]
  /\ clients' = IF listening[c]
                  THEN [clients EXCEPT ![InstOf(c)] = CloseHandler(@, c)]
                  ELSE clients
  /\ UNCHANGED << closeCode, urlToken, listening, isAlive >>
  /\ UNCHANGED << pending, directory, sent, inbox, ignored, lastReg, nRegs >>
  /\ UNCHANGED beatVars
  /\ UNCHANGED gateVars
  /\ UNCHANGED busVars
  /\ UNCHANGED srvVars

\* ---------------------------------------------------------------- heartbeat

SweepCap == 3

\* A sweep over the sockets of the registry instead of wss.clients.
WssClientsRegistered(i) ==
  {c \in Conns : /\ InstOf(c) = i
                 /\ readyState[c] \in {"OPEN", "CLOSING"}
                 /\ Holds(clients[i], c) # {}}

\* wss.clients of an instance: the sockets accepted and not yet closed.
WssClients(i) ==
  {c \in Conns : InstOf(c) = i /\ readyState[c] \in {"OPEN", "CLOSING"}}

\* extWs.isAlive === false
IsDead(flag) == flag = "false"

\* A pong handler that leaves the flag as it finds it.
OnPongKeeps(flag) == flag

\* ws.on('pong'): the value the handler gives isAlive.
OnPong(flag) == "true"

\* ping() puts a frame on the wire only while the socket is OPEN.
PingResult(state) == IF state = "OPEN" THEN "sent" ELSE "unsent"

\* The setInterval callback, while the timer is set: one pass over wss.clients.
Sweep(i) ==
  /\ interval[i] = "set"
  /\ readyState' = [c \in Conns |->
       IF c \in WssClients(i) /\ IsDead(isAlive[c]) THEN "CLOSING" ELSE readyState[c]]
  /\ killed' = [c \in Conns |->
       killed[c] \/ (c \in WssClients(i) /\ IsDead(isAlive[c]))]
  /\ isAlive' = [c \in Conns |->
       IF c \in WssClients(i) /\ ~IsDead(isAlive[c]) THEN "false" ELSE isAlive[c]]
  /\ pingState' = [c \in Conns |->
       IF c \in WssClients(i) /\ ~IsDead(isAlive[c])
         THEN PingResult(readyState[c]) ELSE pingState[c]]
  /\ silentSweeps' = [c \in Conns |->
       IF /\ InstOf(c) = i
          /\ readyState[c] \in {"OPEN", "CLOSING"}
          /\ silent[c]
          /\ silentSweeps[c] < SweepCap
         THEN silentSweeps[c] + 1 ELSE silentSweeps[c]]
  /\ UNCHANGED << closeCode, urlToken, listening, silent >>
  /\ UNCHANGED << clients, pending, directory, sent, inbox, ignored, lastReg, nRegs >>
  /\ UNCHANGED gateVars
  /\ UNCHANGED busVars
  /\ UNCHANGED srvVars

\* The peer answers the ping on the wire; the pong handler, if attached, runs.
Pong(c) ==
  /\ readyState[c] = "OPEN"
  /\ pingState[c] = "sent"
  /\ ~silent[c]
  /\ pingState' = [pingState EXCEPT ![c] = "answered"]
  /\ isAlive' = IF listening[c] THEN [isAlive EXCEPT ![c] = OnPong(@)] ELSE isAlive
  /\ UNCHANGED << readyState, closeCode, urlToken, listening, silent, silentSweeps, killed >>
  /\ UNCHANGED << clients, pending, directory, sent, inbox, ignored, lastReg, nRegs >>
  /\ UNCHANGED gateVars
  /\ UNCHANGED busVars
  /\ UNCHANGED srvVars

\* The peer stops answering pings from now on (it is dead or unreachable).
GoSilent(c) ==
  /\ readyState[c] = "OPEN"
  /\ ~silent[c]
  /\ silent' = [silent EXCEPT ![c] = TRUE]
  /\ UNCHANGED << pingState, silentSweeps, killed >>
  /\ UNCHANGED << clients, pending, directory, sent, inbox, ignored, lastReg, nRegs >>
  /\ UNCHANGED connVars
  /\ UNCHANGED gateVars
  /\ UNCHANGED busVars
  /\ UNCHANGED srvVars

\* A close handler of the server that leaves the timer running.
OnWssCloseKeeps(timer) == timer

\* wss.on('close', () => clearInterval(interval))
OnWssClose(timer) == "cleared"

\* The WebSocket server of instance i emits 'close'; the handler touches no
\* connection.
ServerClose(i) ==
  /\ ~wssClosed[i]
  /\ wssClosed' = [wssClosed EXCEPT ![i] = TRUE]
  /\ interval' = [interval EXCEPT ![i] = OnWssClose(@)]
  /\ UNCHANGED errored
  /\ UNCHANGED << clients, pending, directory, sent, inbox, ignored, lastReg, nRegs >>
  /\ UNCHANGED connVars
  /\ UNCHANGED beatVars
  /\ UNCHANGED gateVars
  /\ UNCHANGED busVars

\* The socket emits 'error': ws.on('error') logs, and the library goes on to
\* close the socket, which emits 'close' later.
ErrorEvent(c) ==
  /\ readyState[c] = "OPEN"
  /\ errored' = [errored EXCEPT ![c] = TRUE]
  /\ readyState' = [readyState EXCEPT ![c] = "CLOSING"]
  /\ UNCHANGED << interval, wssClosed >>
  /\ UNCHANGED << closeCode, urlToken, listening, isAlive >>
  /\ UNCHANGED << clients, pending, directory, sent, inbox, ignored, lastReg, nRegs >>
  /\ UNCHANGED beatVars
  /\ UNCHANGED gateVars
  /\ UNCHANGED busVars

\* ---------------------------------------------------------------- fan-out

\* A bus that does not echo a publication to the instance that published it.
SubscribersButPublisher(publisher) == Instances \ {publisher}

\* Every instance runs redisSubscriber.subscribe on the one alert channel.
Subscribers(publisher) == Instances

\* The loop of sendAlertToLocalClients from entry k on.
RECURSIVE SendFrom(_, _, _, _, _)
SendFrom(map, k, targetIp, payload, out) ==
  IF k > Len(map) THEN out
  ELSE SendFrom(map, k + 1, targetIp, payload,
         IF map[k].ip = targetIp /\ readyState[map[k].ws] = "OPEN"
           THEN [out EXCEPT ![map[k].ws] = Append(@, payload)]
           ELSE out)

\* The loop without the readyState test.
RECURSIVE SendFromAnyState(_, _, _, _, _)
SendFromAnyState(map, k, targetIp, payload, out) ==
  IF k > Len(map) THEN out
  ELSE SendFromAnyState(map, k + 1, targetIp, payload,
         IF map[k].ip = targetIp
           THEN [out EXCEPT ![map[k].ws] = Append(@, payload)]
           ELSE out)

sendAlertAnyState(map, targetIp, payload, out) ==
  SendFromAnyState(map, 1, targetIp, payload, out)

sendAlertToLocalClients(map, targetIp, payload, out) ==
  SendFrom(map, 1, targetIp, payload, out)

\* A test that takes every message that parses.
WellFormedIfParses(m) == m.parses

\* if (targetIp && payload) after JSON.parse, inside the try block
WellFormed(m) == m.parses /\ Truthy(m.targetIp) /\ m.payload.type # ""

\* A subscriber that is handed the newest message of its inbox.
NewestMessage(q) == q[Len(q)]

\* The message the subscribe callback is invoked with: the oldest one that
\* has arrived and has not been handled.
NextMessage(q) == Head(q)

\* The subscribe callback of instance i on the oldest undelivered bus message:
\* it runs to completion, sending or dropping, before the next message.
Deliver(i) ==
  /\ inbox[i] # <<>>
  /\ inbox' = [inbox EXCEPT ![i] = Tail(@)]
  /\ sent' = IF WellFormed(NextMessage(inbox[i]))
               THEN sendAlertToLocalClients(clients[i], NextMessage(inbox[i]).targetIp,
                                            NextMessage(inbox[i]).payload, sent)
               ELSE sent
  /\ dropped' = IF WellFormed(NextMessage(inbox[i]))
                  THEN dropped
                  ELSE [dropped EXCEPT ![i] = @ + 1]
  /\ UNCHANGED << clients, pending, directory, ignored, lastReg, nRegs, nBus >>
  /\ UNCHANGED connVars
  /\ UNCHANGED beatVars
  /\ UNCHANGED gateVars
  /\ UNCHANGED srvVars

\* ---------------------------------------------------------------- gateway

\* An element of req.body.ips: a string (possibly empty) or something else.
Str(v) == [type |-> "string", value |-> v]

Num(v) == [type |-> "number", value |-> v]

Elems == {Str("a1"), Str("a2"), Str(""), Num("7")}

RECURSIVE SeqsUpTo(_, _)
SeqsUpTo(S, n) ==
  IF n = 0 THEN {<<>>}
  ELSE SeqsUpTo(S, n - 1) \cup
       {Append(q, e) : q \in {r \in SeqsUpTo(S, n - 1) : Len(r) = n - 1}, e \in S}

\* req.body.ips: undefined, a truthy value that is no array, or an array.
IpsValues ==
  {[kind |-> "absent", elems |-> <<>>], [kind |-> "scalar", elems |-> <<>>]}
    \cup {[kind |-> "array", elems |-> q] : q \in SeqsUpTo(Elems, MaxIps)}

\* A request body; an absent message or title is the empty string.
Bodies ==
  {[ips |-> v, message |-> m, title |-> ""] : v \in IpsValues, m \in {"", "evac"}}

\* A validation that lets an empty array through.
RejectsButEmpty(body) ==
  \/ body.ips.kind = "absent"
  \/ body.ips.kind # "array"
  \/ ~Truthy(body.message)

\* !ips || !Array.isArray(ips) || ips.length === 0 || !message
Rejects(body) ==
  \/ body.ips.kind = "absent"
  \/ body.ips.kind # "array"
  \/ Len(body.ips.elems) = 0
  \/ ~Truthy(body.message)

\* A test that takes every string, the empty one included, for a target.
IsTargetAnyString(e) == e.type = "string"

\* typeof targetIp === 'string' && targetIp.length > 0
IsTarget(e) == e.type = "string" /\ e.value # ""

\* The for loop, resumed after element k: the next element that is published,
\* or one past the end.
RECURSIVE NextTarget(_, _)
NextTarget(ips, k) ==
  IF k > Len(ips) THEN k
  ELSE IF IsTarget(ips[k]) THEN k
  ELSE NextTarget(ips, k + 1)

\* alertPayload, built once per request; the timestamp is the request's number.
AlertPayload(body, now) ==
  [type |-> "alert",
   title |-> IF Truthy(body.title) THEN body.title ELSE "EMERGENCY ALERT",
   message |-> body.message,
   timestamp |-> now]

\* redisMessage as the subscriber parses it; from records the publisher.
Envelope(targetIp, payload, i) ==
  [parses |-> TRUE, targetIp |-> targetIp, payload |-> payload, from |-> i]

\* The request handler after element k - 1: suspended at the publish of the
\* next target, or answered 200 when the loop is over; the body of the 200
\* response carries publishedCount.
Resume(r, k) ==
  IF NextTarget(r.body.ips.elems, k) > Len(r.body.ips.elems)
    THEN [r EXCEPT !.phase = "responded", !.code = 200,
                   !.reported = <<r.publishedCount>>,
                   !.idx = NextTarget(r.body.ips.elems, k)]
    ELSE [r EXCEPT !.phase = "publishing", !.idx = NextTarget(r.body.ips.elems, k)]

\* triggerAlert up to its first await, or to its 400 response.
TriggerAlert(i, body) ==
  /\ req.phase # "publishing"
  /\ nReqs < MaxReqs
  /\ nReqs' = nReqs + 1
  /\ req' = IF Rejects(body)
              THEN [phase |-> "responded", inst |-> i, body |-> body, idx |-> 0,
                    publishedCount |-> 0, published |-> <<>>, code |-> 400,
                    reported |-> <<>>, payload |-> AlertPayload(body, 0)]
              ELSE Resume([phase |-> "publishing", inst |-> i, body |-> body, idx |-> 0,
                           publishedCount |-> 0, published |-> <<>>, code |-> 0,
                           reported |-> <<>>, payload |-> AlertPayload(body, nReqs + 1)], 1)
  /\ UNCHANGED << clients, pending, directory, sent, inbox, ignored, lastReg, nRegs >>
  /\ UNCHANGED connVars
  /\ UNCHANGED beatVars
  /\ UNCHANGED busVars
  /\ UNCHANGED srvVars

\* redisPublisher.publish resolved: the envelope is with every subscriber,
\* publishedCount++, and the loop goes on.
PublishOk ==
  /\ req.phase = "publishing"
  /\ inbox' = [j \in Instances |->
       IF j \in Subscribers(req.inst)
         THEN Append(inbox[j],
                Envelope(req.body.ips.elems[req.idx].value, req.payload, req.inst))
         ELSE inbox[j]]
  /\ req' = Resume([req EXCEPT
                      !.publishedCount = @ + 1,
                      !.published = Append(@, req.body.ips.elems[req.idx].value)],
                   req.idx + 1)
  /\ UNCHANGED << clients, pending, directory, sent, ignored, lastReg, nRegs, nReqs >>
  /\ UNCHANGED connVars
  /\ UNCHANGED beatVars
  /\ UNCHANGED busVars
  /\ UNCHANGED srvVars

\* A failed publish that is skipped: the loop goes on with the next element.
PublishFailGoesOn ==
  /\ req.phase = "publishing"
  /\ req' = Resume(req, req.idx + 1)
  /\ UNCHANGED << clients, pending, directory, sent, inbox, ignored, lastReg, nRegs, nReqs >>
  /\ UNCHANGED connVars
  /\ UNCHANGED beatVars
  /\ UNCHANGED busVars
  /\ UNCHANGED srvVars

\* redisPublisher.publish rejected: the catch block answers 500 with the body
\* { error: 'Internal server error.' }, which carries no count.
PublishFail ==
  /\ req.phase = "publishing"
  /\ req' = [req EXCEPT !.phase = "responded", !.code = 500]
  /\ UNCHANGED << clients, pending, directory, sent, inbox, ignored, lastReg, nRegs, nReqs >>
  /\ UNCHANGED connVars
  /\ UNCHANGED beatVars
  /\ UNCHANGED busVars
  /\ UNCHANGED srvVars

\* An absent payload: every field empty, falsy in the subscriber's test.
NoPayload == [type |-> "", title |-> "", message |-> "", timestamp |-> 0]

\* The payload of an alert that another publisher put on the channel.
OtherPayload ==
  [type |-> "alert", title |-> "EMERGENCY ALERT", message |-> "drill", timestamp |-> 0]

\* What any client of the bus may publish on the alert channel: text that is
\* no JSON, an object without targetIp, an object without payload, and a
\* well-formed envelope.
BadBusMsgs ==
  { [parses |-> FALSE, targetIp |-> "", payload |-> NoPayload, from |-> "bus"],
    [parses |-> TRUE, targetIp |-> "", payload |-> OtherPayload, from |-> "bus"],
    [parses |-> TRUE, targetIp |-> "a1", payload |-> NoPayload, from |-> "bus"] }

BusMsgs == BadBusMsgs \cup {Envelope("a1", OtherPayload, "bus")}

\* A message of another publisher reaches the subscribers of the channel.
BusMessage(m) ==
  /\ nBus < MaxBus
  /\ nBus' = nBus + 1
  /\ inbox' = [j \in Instances |->
       IF j \in Subscribers(m.from) THEN Append(inbox[j], m) ELSE inbox[j]]
  /\ UNCHANGED << clients, pending, directory, sent, ignored, lastReg, nRegs, dropped >>
  /\ UNCHANGED connVars
  /\ UNCHANGED beatVars
  /\ UNCHANGED gateVars
  /\ UNCHANGED srvVars

\* ---------------------------------------------------------------- specifications

\* The gateway alone, over every request body, with the fan-out bridges.
NextGateway ==
  \/ \E i \in Instances, body \in Bodies : TriggerAlert(i, body)
  \/ PublishOk
  \/ PublishFail
  \/ \E i \in Instances : Deliver(i)

SpecGateway == Init /\ [][NextGateway]_vars

\* Request bodies that publish: one target, or two different targets.
TargetBodies ==
  {[ips |-> [kind |-> "array", elems |-> q], message |-> "evac", title |-> ""] :
     q \in {<<Str("a1")>>, <<Str("a2"), Str("a1")>>}}

\* Two connections of one instance.
LocalConns == {"c1", "c2"}

\* One connection on each instance.
CrossConns == {"c1", "c3"}

\* Authenticated connections in C that register, close and are sent the
\* alerts the gateways of the instances in P publish for the request bodies
\* in B; the upserts stay in flight.
NextSessions(C, P, B) ==
  \/ \E c \in C : Connect(c, "valid")
  \/ \E c \in C, m \in ValidMsgs : ClientMessage(c, m)
  \/ \E c \in C : PeerClose(c)
  \/ \E c \in C : CloseEvent(c)
  \/ \E i \in P, body \in B : TriggerAlert(i, body)
  \/ PublishOk
  \/ \E i \in Instances : Deliver(i)

NextFanout == NextSessions(LocalConns, {"i1"}, TargetBodies)

SpecFanout == Init /\ [][NextFanout]_vars

\* The request body {ips: ["a1"], message: "evac"}.
OneTarget ==
  [ips |-> [kind |-> "array", elems |-> <<Str("a1")>>], message |-> "evac", title |-> ""]

NextCross == NextSessions(CrossConns, Instances, {OneTarget})

SpecCross == Init /\ [][NextCross]_vars

\* The gate: connections of one instance with every kind of token, sending
\* every kind of frame.
NextGate ==
  \/ \E c \in LocalConns, token \in Tokens : Connect(c, token)
  \/ \E c \in LocalConns, m \in ClientMsgs : ClientMessage(c, m)
  \/ \E p \in Upserts : UpsertDone(p)
  \/ \E p \in Upserts : UpsertFail(p)
  \/ \E c \in LocalConns : PeerClose(c)
  \/ \E c \in LocalConns : CloseEvent(c)

SpecGate == Init /\ [][NextGate]_vars

\* The heartbeat: accepted and rejected connections of one instance, peers
\* that answer pings or fall silent, and the sweep.
NextBeat ==
  \/ \E c \in LocalConns, token \in {"valid", "invalid"} : Connect(c, token)
  \/ \E c \in LocalConns, m \in ValidMsgs : ClientMessage(c, m)
  \/ \E c \in LocalConns : PeerClose(c)
  \/ \E c \in LocalConns : CloseEvent(c)
  \/ Sweep("i1")
  \/ \E c \in LocalConns : Pong(c)
  \/ \E c \in LocalConns : GoSilent(c)

SpecBeat == Init /\ [][NextBeat]_vars

\* The directory: registrations on both instances whose upserts resolve in
\* any order.
NextUpserts ==
  \/ \E c \in CrossConns : Connect(c, "valid")
  \/ \E c \in CrossConns, m \in ValidMsgs : ClientMessage(c, m)
  \/ \E p \in Upserts : UpsertDone(p)
  \/ \E c \in CrossConns : PeerClose(c)
  \/ \E c \in CrossConns : CloseEvent(c)

SpecUpserts == Init /\ [][NextUpserts]_vars

\* The directory with a store that may be unavailable.
NextDir ==
  \/ NextUpserts
  \/ \E p \in Upserts : UpsertFail(p)

SpecDir == Init /\ [][NextDir]_vars

\* The gate on both instances: three connections, every kind of token,
\* registrations on those that were let in.
NextAuth ==
  \/ \E c \in Conns, token \in Tokens : Connect(c, token)
  \/ \E c \in Conns, m \in ValidMsgs : ClientMessage(c, m)
  \/ \E c \in Conns : CloseEvent(c)

SpecAuth == Init /\ [][NextAuth]_vars

\* The fan-out bridges with one session of one device on i1, fed by the
\* gateway and by other publishers, whose messages may be malformed.
NextBridge ==
  \/ Connect("c1", "valid")
  \/ \E a \in Addrs : ClientMessage("c1", RegisterMsg("d1", a))
  \/ PeerClose("c1")
  \/ CloseEvent("c1")
  \/ TriggerAlert("i1", OneTarget)
  \/ PublishOk
  \/ \E i \in Instances : Deliver(i)
  \/ \E m \in BusMsgs : BusMessage(m)

SpecBridge == Init /\ [][NextBridge]_vars

\* The heartbeat of an instance whose WebSocket server may close.
NextShutdown ==
  \/ \E c \in LocalConns : Connect(c, "valid")
  \/ \E c \in LocalConns : ClientMessage(c, RegisterMsg("d1", "a1"))
  \/ \E c \in LocalConns : PeerClose(c)
  \/ \E c \in LocalConns : CloseEvent(c)
  \/ Sweep("i1")
  \/ \E c \in LocalConns : Pong(c)
  \/ \E c \in LocalConns : GoSilent(c)
  \/ ServerClose("i1")

SpecShutdown == Init /\ [][NextShutdown]_vars

\* Sessions of one instance whose sockets may fail.
NextError ==
  \/ \E c \in LocalConns : Connect(c, "valid")
  \/ \E c \in LocalConns, m \in ValidMsgs : ClientMessage(c, m)
  \/ \E c \in LocalConns : PeerClose(c)
  \/ \E c \in LocalConns : ErrorEvent(c)
  \/ \E c \in LocalConns : CloseEvent(c)

SpecError == Init /\ [][NextError]_vars

\* One device that registers on i1 while alerts for its address are published
\* and the directory answers, fails or is slow.
NextEarly ==
  \/ Connect("c1", "valid")
  \/ \E a \in Addrs : ClientMessage("c1", RegisterMsg("d1", a))
  \/ \E p \in Upserts : UpsertDone(p)
  \/ \E p \in Upserts : UpsertFail(p)
  \/ PeerClose("c1")
  \/ CloseEvent("c1")
  \/ TriggerAlert("i1", OneTarget)
  \/ PublishOk
  \/ \E i \in Instances : Deliver(i)

SpecEarly == Init /\ [][NextEarly]_vars

\* One session of i1 and a gateway whose bus may fail in the middle of a
\* request.
NextPartial ==
  \/ NextSessions({"c1"}, {"i1"}, TargetBodies)
  \/ PublishFail

SpecPartial == Init /\ [][NextPartial]_vars

\* ---------------------------------------------------------------- properties

\* Instance i has just run its subscribe callback on the head of its inbox.
Delivered(i) == inbox[i] # <<>> /\ inbox'[i] = Tail(inbox[i])

\* Entries of i's registry that claim address a on connection c, c being OPEN.
OpenMatches(i, a, c) ==
  {k \in 1..Len(clients[i]) :
     clients[i][k].ip = a /\ clients[i][k].ws = c /\ readyState[c] = "OPEN"}

\* The frames the step has added to c's connection.
NewFrames(c) == SubSeq(sent'[c], Len(sent[c]) + 1, Len(sent'[c]))

Grown(c) ==
  Len(sent'[c]) >= Len(sent[c]) /\ SubSeq(sent'[c], 1, Len(sent[c])) = sent[c]

IsAlert(f) == f.type = "alert"

Alerts(c) == {k \in 1..Len(sent[c]) : IsAlert(sent[c][k])}

\* C1: when an instance handles a well-formed envelope targeting A, the payload
\* goes out once for every registry entry that claims A and whose connection is
\* OPEN at that moment, and nothing goes out on any other connection.
C1_DeliverToOpenMatches ==
  [][\A i \in Instances :
       (Delivered(i) /\ WellFormed(Head(inbox[i]))) =>
         \A c \in Conns :
           /\ Grown(c)
           /\ Len(NewFrames(c)) =
                Cardinality(OpenMatches(i, Head(inbox[i]).targetIp, c))
           /\ \A k \in 1..Len(NewFrames(c)) :
                NewFrames(c)[k] = Head(inbox[i]).payload]_vars

\* Two devices registered with one address on i1, each on its own connection,
\* and both connections were sent the alert.
C1_Witness ==
  /\ Len(clients["i1"]) = 2
  /\ clients["i1"][1].ip = clients["i1"][2].ip
  /\ {clients["i1"][1].ws, clients["i1"][2].ws} = {"c1", "c2"}
  /\ Alerts("c1") # {}
  /\ Alerts("c2") # {}
  /\ req.published = <<"a1">>

\* C5: a publication of any instance reaches the inbox of every instance, the
\* publisher's included, and whichever instance published it, the instance that
\* handles it sends the payload on every OPEN connection registered there under
\* the target address.
C5_EveryInstanceDelivers ==
  [][/\ (req.phase = "publishing" /\ req'.publishedCount = req.publishedCount + 1) =>
          \A j \in Instances :
            inbox'[j] = Append(inbox[j],
              Envelope(req.body.ips.elems[req.idx].value, req.payload, req.inst))
     /\ \A j \in Instances :
          (Delivered(j) /\ WellFormed(Head(inbox[j]))) =>
            \A c \in Conns :
              OpenMatches(j, Head(inbox[j]).targetIp, c) # {} =>
                /\ Len(sent'[c]) > Len(sent[c])
                /\ sent'[c][Len(sent'[c])] = Head(inbox[j]).payload]_vars

\* The same deviceId is registered with a1 on both instances; an alert that
\* i1 published has been sent to the connection on i1 and to the one on i2.
C5_Witness ==
  /\ req.inst = "i1"
  /\ req.published = <<"a1">>
  /\ clients["i1"] = <<Entry("d1", "c1", "a1")>>
  /\ clients["i2"] = <<Entry("d1", "c3", "a1")>>
  /\ sent["c1"] = <<req.payload>>
  /\ sent["c3"] = <<req.payload>>

\* The entries of a registry under one deviceId.
EntriesOf(map, d) == {k \in 1..Len(map) : map[k].deviceId = d}

NoFrames == [c \in Conns |-> <<>>]

\* C8: a registration of deviceId d with address a leaves the registry of its
\* instance with one entry for d, carrying a and the registering connection; so
\* a lookup by any other address, the previously registered one included, no
\* longer sends anything on account of d, and a lookup by a does.
C8_LatestAddressWins ==
  [][\A c \in Conns, d \in DeviceIds, a \in Addrs :
       pending'[Upsert(c, d, a)] = pending[Upsert(c, d, a)] + 1 =>
         LET map == clients'[InstOf(c)]
             own == [k \in 1..Cardinality(EntriesOf(map, d)) |->
                       map[CHOOSE j \in EntriesOf(map, d) :
                             Cardinality({h \in EntriesOf(map, d) : h < j}) = k - 1]]
         IN /\ own = <<Entry(d, c, a)>>
            /\ \A b \in Addrs \ {a} :
                 sendAlertToLocalClients(own, b, "p", NoFrames) = NoFrames
            /\ sendAlertToLocalClients(own, a, "p", NoFrames) =
                 [NoFrames EXCEPT ![c] = <<"p">>]]_vars

\* d1 was registered on i1 with a1 and then with a2 (both upserts are still in
\* flight), and its connection has been sent an alert.
C8_Witness ==
  /\ pending[Upsert("c1", "d1", "a1")] = 1
  /\ pending[Upsert("c1", "d1", "a2")] = 1
  /\ clients["i1"] = <<Entry("d1", "c1", "a2")>>
  /\ Alerts("c1") # {}

\* The gate closed the connection: its close code is set.
Rejected(c) == closeCode[c] # 0

PendingOn(c) == {p \in Upserts : p.ws = c /\ pending[p] > 0}

\* C2: a connection whose credential is missing or invalid is closed by the
\* gate and no frame it sends, before or after the close handshake completes,
\* ever gives it a registry entry, a directory upsert or an acknowledgment.
C2_RejectedNeverRegistered ==
  \A c \in Conns :
    Rejected(c) =>
      /\ readyState[c] \in {"CLOSING", "CLOSED"}
      /\ \A i \in Instances : Holds(clients[i], c) = {}
      /\ PendingOn(c) = {}
      /\ sent[c] = <<>>

\* A rejected connection, its close handshake not yet complete, has sent a
\* valid register frame.
C2_Witness ==
  \E c \in Conns :
    /\ Rejected(c)
    /\ readyState[c] = "CLOSING"
    /\ ignored[c] = "register"

\* C3: a registered session whose peer has gone silent is terminated by the
\* second sweep after that at the latest, and once the close handler of its
\* terminated connection has run the registry holds no entry for it.
C3_SilentSessionRemoved ==
  \A c \in Conns :
    /\ (silentSweeps[c] >= 2 /\ listening[c]) => readyState[c] \in {"CLOSING", "CLOSED"}
    /\ (silent[c] /\ killed[c] /\ readyState[c] = "CLOSED") =>
         Holds(clients[InstOf(c)], c) = {}

\* The timing half of C3 alone.
SilentWithinTwoSweeps ==
  \A c \in Conns : silentSweeps[c] >= 2 => readyState[c] \in {"CLOSING", "CLOSED"}

\* C4: the sweep terminates a connection only when its liveness flag is false
\* at the start of the sweep, that is when no pong has arrived since the
\* previous sweep pinged it; a peer that answers every ping is never terminated.
C4_OnlyUnansweredTerminated ==
  [][\A c \in Conns :
       (killed'[c] /\ ~killed[c]) =>
         /\ isAlive[c] = "false"
         /\ pingState[c] \in {"sent", "unsent"}]_vars

\* One connection was terminated by the sweep while the other, which has
\* answered its ping, is open with its flag set.
C4_Witness ==
  /\ killed["c1"]
  /\ ~killed["c2"]
  /\ readyState["c2"] = "OPEN"
  /\ pingState["c2"] = "answered"
  /\ isAlive["c2"] = "true"

PendingFor(d) == {p \in Upserts : p.deviceId = d /\ pending[p] > 0}

\* C6: once every upsert started for a deviceId has completed, the directory
\* holds the address of the registration handled last for that deviceId.
C6_DirectoryHoldsLatest ==
  \A d \in DeviceIds :
    (lastReg[d] # "" /\ PendingFor(d) = {}) => directory[d] = lastReg[d]

\* C7: when the handler of a registration finishes on a connection that is
\* still open, the client has been sent the registered/success frame, whether
\* the upsert succeeded or failed.
C7_AlwaysAcknowledged ==
  [][\A p \in Upserts :
       (pending'[p] = pending[p] - 1 /\ readyState[p.ws] = "OPEN") =>
         sent'[p.ws] = Append(sent[p.ws], AckMsg)]_vars

\* The words of the claim: a target list that is absent, not a list or empty,
\* or a message body that is absent.
BadInput(body) ==
  \/ body.ips.kind \in {"absent", "scalar"}
  \/ body.ips.elems = <<>>
  \/ body.message = ""

\* C9: a request with such a body is answered 400 and puts nothing on the bus.
C9_BadInputRejected ==
  [][(nReqs' = nReqs + 1 /\ BadInput(req'.body)) =>
       /\ req'.phase = "responded"
       /\ req'.code = 400
       /\ req'.published = <<>>
       /\ inbox' = inbox]_vars

\* The request {ips: [], message: "evac"} has been answered 400.
C9_Witness ==
  /\ req.phase = "responded"
  /\ req.code = 400
  /\ req.body.ips = [kind |-> "array", elems |-> <<>>]
  /\ req.body.message = "evac"
  /\ \A i \in Instances : inbox[i] = <<>>

Occurrences(q, v) == Cardinality({k \in 1..Len(q) : q[k] = v})

\* C10 as stated: a request answered 200 has published every valid target
\* address of its list exactly once, and no address more than once.
C10_OncePerAddress ==
  (req.phase = "responded" /\ req.code = 200) =>
    /\ \A k \in 1..Len(req.body.ips.elems) :
         IsTarget(req.body.ips.elems[k]) =>
           Occurrences(req.published, req.body.ips.elems[k].value) = 1
    /\ \A a \in Addrs : Occurrences(req.published, a) <= 1

\* The valid targets of a list, one per element, in the order of the list.
RECURSIVE TargetsOf(_)
TargetsOf(ips) ==
  IF ips = <<>> THEN <<>>
  ELSE IF Head(ips).type = "string" /\ Head(ips).value # ""
    THEN <<Head(ips).value>> \o TargetsOf(Tail(ips))
    ELSE TargetsOf(Tail(ips))

\* C10 amended: a request answered 200 has published one envelope for every
\* element of its list that is a non-empty string, in the order of the list,
\* and none for any other element; an address the list repeats is published
\* once for each of its occurrences.
C10_OncePerElement ==
  /\ (req.phase = "responded" /\ req.code = 200) =>
       /\ req.published = TargetsOf(req.body.ips.elems)
       /\ req.publishedCount = Len(req.published)
  /\ req.phase = "publishing" =>
       /\ req.idx \in 1..Len(req.body.ips.elems)
       /\ req.published = TargetsOf(SubSeq(req.body.ips.elems, 1, req.idx - 1))

\* The request {ips: ["a1", "a1"], message: "evac"} has been answered 200
\* after publishing a1 twice.
C10_Witness ==
  /\ req.phase = "responded"
  /\ req.code = 200
  /\ req.body.ips.elems = <<Str("a1"), Str("a1")>>
  /\ req.published = <<"a1", "a1">>

\* The publish the request was suspended at has been rejected: the handler
\* moved on without counting an envelope.
PublishFailed ==
  req.phase = "publishing" /\ req' # req /\ req'.publishedCount = req.publishedCount

\* C11: when the publish for a valid target fails, the request is answered 500
\* at once, the envelopes of its earlier targets are those it has published
\* and stay in the inboxes, no envelope with its payload arrives afterwards, and the
\* bridges go on delivering what was published to the open matching sessions.
C11_FailureAbortsLoop ==
  [][/\ PublishFailed =>
          /\ req'.phase = "responded"
          /\ req'.code = 500
          /\ IsTarget(req.body.ips.elems[req.idx])
          /\ req'.published = TargetsOf(SubSeq(req.body.ips.elems, 1, req.idx - 1))
          /\ inbox' = inbox
          /\ sent' = sent
     /\ (req.code = 500 /\ req' = req) =>
          \A i \in Instances :
            Len(inbox'[i]) > Len(inbox[i]) =>
              inbox'[i][Len(inbox'[i])].payload # req.payload
     /\ req.code = 500 =>
          \A i \in Instances :
            (Delivered(i) /\ WellFormed(Head(inbox[i]))) =>
              \A c \in Conns :
                /\ Grown(c)
                /\ Len(NewFrames(c)) =
                     Cardinality(OpenMatches(i, Head(inbox[i]).targetIp, c))
                /\ \A k \in 1..Len(NewFrames(c)) :
                     NewFrames(c)[k] = Head(inbox[i]).payload]_vars

\* The request {ips: ["a2", "a1"], message: "evac"} was answered 500 after
\* a2 was published; the session registered under a2 has been sent the alert
\* and nothing is left on the bus.
C11_Witness ==
  /\ req.phase = "responded"
  /\ req.code = 500
  /\ req.body.ips.elems = <<Str("a2"), Str("a1")>>
  /\ req.published = <<"a2">>
  /\ clients["i1"] = <<Entry("d1", "c1", "a2")>>
  /\ sent["c1"] = <<req.payload>>
  /\ \A i \in Instances : inbox[i] = <<>>

\* C12: a request that has been answered after publishing at least one
\* envelope has reported a count to its caller, and the count is the number
\* of envelopes the request put on the bus.
C12_PublishedCountReported ==
  (req.phase = "responded" /\ req.published # <<>>) =>
    req.reported = <<Len(req.published)>>

\* C13: in the registry of an instance no two entries hold the same
\* connection, whatever registrations the connections have sent.
C13_OneEntryPerConnection ==
  \A i \in Instances : \A c \in Conns : Cardinality(Holds(clients[i], c)) <= 1

\* C14: when an instance handles one bus message, no connection is sent more
\* than one frame, and a connection that is not OPEN is sent none.
C14_AtMostOncePerConnection ==
  [][\A i \in Instances :
       Delivered(i) =>
         \A c \in Conns :
           /\ Grown(c)
           /\ Len(NewFrames(c)) <= 1
           /\ readyState[c] # "OPEN" => sent'[c] = sent[c]]_vars

\* The connection handler has just run for c.
Connected(c) == readyState[c] = "NEW" /\ readyState'[c] # "NEW"

\* C15: the gate answers a missing or empty token by closing with 4001, an
\* invalid or expired one by closing with 4003, and a valid one by closing
\* nothing: the connection is open with its handlers attached; a rejected
\* connection gets no handler.
C15_ThreeOutcomes ==
  [][\A c \in Conns :
       Connected(c) =>
         /\ urlToken'[c] \in {"absent", "empty"} =>
              closeCode'[c] = 4001 /\ readyState'[c] = "CLOSING" /\ ~listening'[c]
         /\ urlToken'[c] = "invalid" =>
              closeCode'[c] = 4003 /\ readyState'[c] = "CLOSING" /\ ~listening'[c]
         /\ urlToken'[c] = "valid" =>
              closeCode'[c] = 0 /\ readyState'[c] = "OPEN" /\ listening'[c]]_vars

\* Three connections met the three outcomes: one without token closed with
\* 4001, one with an invalid token closed with 4003, and one with a valid
\* token that is open and has registered.
C15_Witness ==
  /\ urlToken["c1"] = "absent" /\ closeCode["c1"] = 4001
  /\ urlToken["c2"] = "invalid" /\ closeCode["c2"] = 4003
  /\ urlToken["c3"] = "valid" /\ closeCode["c3"] = 0
  /\ readyState["c3"] = "OPEN"
  /\ Holds(clients["i2"], "c3") # {}

\* The close event of c has just fired with the close handler attached.
Closed(c) == readyState[c] = "CLOSING" /\ readyState'[c] = "CLOSED" /\ listening[c]

\* C16: once the close handler of a connection has run, no entry of the
\* registry holds that connection, whatever it had registered; and when the
\* connection held no entry, the close handler leaves the registry as it was.
C16_CloseRemovesEveryEntry ==
  [][\A c \in Conns :
       Closed(c) =>
         /\ Holds(clients'[InstOf(c)], c) = {}
         /\ Holds(clients[InstOf(c)], c) = {} => clients' = clients]_vars

\* Connection b has just registered deviceId d, which an entry of the registry
\* held for another connection a, a being OPEN.
Takeover(a, b, d) ==
  /\ a # b
  /\ InstOf(a) = InstOf(b)
  /\ readyState[a] = "OPEN"
  /\ \E k \in EntriesOf(clients[InstOf(a)], d) : clients[InstOf(a)][k].ws = a
  /\ \E x \in Addrs : pending'[Upsert(b, d, x)] = pending[Upsert(b, d, x)] + 1

Range(q) == {q[k] : k \in 1..Len(q)}

\* C17: when b registers a deviceId that the open connection a holds, the
\* registry is left with one entry for it, holding b, and a is not closed; a
\* connection is sent an alert only through an entry that holds it, so a gets
\* none through that deviceId any more; and the close handler of a connection
\* removes no entry that holds another connection.
C17_TakeoverKeepsNewOwner ==
  [][/\ \A a \in Conns, b \in Conns, d \in DeviceIds :
          Takeover(a, b, d) =>
            /\ Cardinality(EntriesOf(clients'[InstOf(b)], d)) = 1
            /\ \A k \in EntriesOf(clients'[InstOf(b)], d) :
                 clients'[InstOf(b)][k].ws = b
            /\ readyState' = readyState
            /\ closeCode' = closeCode
            /\ sent' = sent
     /\ \A i \in Instances :
          Delivered(i) =>
            \A c \in Conns :
              sent'[c] # sent[c] =>
                \E e \in Range(clients[i]) :
                  e.ws = c /\ e.ip = Head(inbox[i]).targetIp
     /\ \A c \in Conns :
          Closed(c) =>
            \A e \in Range(clients[InstOf(c)]) :
              e.ws # c => e \in Range(clients'[InstOf(c)])]_vars

\* c1 and then c2 registered d1 with a1 and both are still open; the one entry
\* for d1 holds c2, and the alert for a1 went to c2 alone.
C17_Witness ==
  /\ pending[Upsert("c1", "d1", "a1")] = 1
  /\ pending[Upsert("c2", "d1", "a1")] = 1
  /\ readyState["c1"] = "OPEN"
  /\ readyState["c2"] = "OPEN"
  /\ clients["i1"] = <<Entry("d1", "c2", "a1")>>
  /\ sent["c1"] = <<>>
  /\ sent["c2"] = <<req.payload>>
  /\ req.published = <<"a1">>

\* The words of the claim: a bus message that cannot be parsed, or that has
\* no target address or no payload.
Malformed(m) == ~m.parses \/ m.targetIp = "" \/ m.payload = NoPayload

\* C18: handling a malformed bus message sends nothing and leaves the registry
\* as it is; the subscriber goes on: after a drop it still takes the messages
\* of its inbox, and a well-formed envelope it takes is sent on every OPEN
\* connection registered under the target address.
C18_MalformedDropped ==
  [][\A i \in Instances :
       /\ (Delivered(i) /\ Malformed(Head(inbox[i]))) =>
            /\ sent' = sent
            /\ clients' = clients
            /\ dropped'[i] = dropped[i] + 1
       /\ (dropped[i] > 0 /\ inbox[i] # <<>>) => ENABLED Deliver(i)
       /\ (dropped[i] > 0 /\ Delivered(i) /\ ~Malformed(Head(inbox[i]))) =>
            \A c \in Conns :
              /\ Grown(c)
              /\ Len(NewFrames(c)) =
                   Cardinality(OpenMatches(i, Head(inbox[i]).targetIp, c))
              /\ \A k \in 1..Len(NewFrames(c)) :
                   NewFrames(c)[k] = Head(inbox[i]).payload]_vars

\* The subscriber of i1 has dropped two malformed messages, and the alert
\* published for a1 has been sent to the session registered under a1.
C18_Witness ==
  /\ dropped["i1"] = 2
  /\ inbox["i1"] = <<>>
  /\ clients["i1"] = <<Entry("d1", "c1", "a1")>>
  /\ req.published = <<"a1">>
  /\ sent["c1"] = <<req.payload>>

\* The message handler of the authenticated connection c has just run on a
\* frame that is no valid registration.
InvalidHandled(c) == listening[c] /\ ignored'[c] = "invalid" /\ ignored[c] # "invalid"

\* C19: an invalid frame on an authenticated connection changes neither the
\* registry, nor the directory or the upserts in flight, nor the state of any
\* socket, and nothing is sent; a valid registration that the connection sends
\* afterwards puts its entry in the registry.
C19_InvalidFrameIgnored ==
  [][\A c \in Conns :
       /\ InvalidHandled(c) =>
            /\ clients' = clients
            /\ directory' = directory
            /\ pending' = pending
            /\ readyState' = readyState
            /\ sent' = sent
       /\ (listening[c] /\ ignored[c] = "invalid") =>
            \A d \in DeviceIds, a \in Addrs :
              pending'[Upsert(c, d, a)] = pending[Upsert(c, d, a)] + 1 =>
                /\ Cardinality(EntriesOf(clients'[InstOf(c)], d)) = 1
                /\ \A k \in EntriesOf(clients'[InstOf(c)], d) :
                     clients'[InstOf(c)][k] = Entry(d, c, a)]_vars

\* An authenticated connection that sent an invalid frame is open, registered
\* and acknowledged, and the directory has its record.
C19_Witness ==
  /\ listening["c1"]
  /\ ignored["c1"] = "invalid"
  /\ readyState["c1"] = "OPEN"
  /\ clients["i1"] = <<Entry("d1", "c1", "a1")>>
  /\ directory["d1"] = "a1"
  /\ sent["c1"] = <<AckMsg>>

\* C20: a bus message that arrives goes behind those that wait; one step of
\* the subscriber takes the oldest waiting message alone, and every frame of
\* that step carries the payload of that message and goes behind the frames
\* the connection was sent before; no alert is sent in any other step.
C20_OneAtATimeInOrder ==
  [][/\ \A i \in Instances :
          inbox'[i] # inbox[i] =>
            \/ /\ Len(inbox'[i]) = Len(inbox[i]) + 1
               /\ SubSeq(inbox'[i], 1, Len(inbox[i])) = inbox[i]
               /\ sent' = sent
            \/ /\ inbox'[i] = Tail(inbox[i])
               /\ \A c \in Conns :
                    /\ Grown(c)
                    /\ \A k \in 1..Len(NewFrames(c)) :
                         NewFrames(c)[k] = Head(inbox[i]).payload
     /\ \A c \in Conns :
          (\E k \in 1..Len(NewFrames(c)) : IsAlert(NewFrames(c)[k])) =>
            Delivered(InstOf(c))]_vars

\* The session registered under a1 has been sent two different payloads, the
\* other publisher's first and the gateway's second.
C20_Witness ==
  /\ clients["i1"] = <<Entry("d1", "c1", "a1")>>
  /\ req.published = <<"a1">>
  /\ sent["c1"] = <<OtherPayload, req.payload>>
  /\ inbox["i1"] = <<>>

\* C21: once the WebSocket server of an instance has emitted 'close', its
\* timer is cleared, and no step pings a connection of the instance, clears
\* its liveness flag or terminates it for the monitor.
C21_NoSweepAfterServerClose ==
  [][\A i \in Instances :
       /\ wssClosed'[i] => interval'[i] = "cleared"
       /\ wssClosed[i] =>
            \A c \in Conns :
              InstOf(c) = i =>
                /\ pingState'[c] = pingState[c] \/ pingState'[c] = "answered"
                /\ isAlive'[c] = "false" => isAlive[c] = "false"
                /\ killed'[c] = killed[c]]_vars

\* The server of i1 has closed after one sweep: c1, whose peer went silent
\* after the ping, is still open and has not been terminated.
C21_Witness ==
  /\ wssClosed["i1"]
  /\ interval["i1"] = "cleared"
  /\ readyState["c1"] = "OPEN"
  /\ silent["c1"]
  /\ silentSweeps["c1"] = 0
  /\ isAlive["c1"] = "false"
  /\ pingState["c1"] = "sent"
  /\ ~killed["c1"]

\* C22: once the error event of a registered connection has been handled,
\* the registry of its instance holds no entry for that connection.
C22_ErrorDestroysSession ==
  \A c \in Conns : errored[c] => Holds(clients[InstOf(c)], c) = {}

\* The connection has been sent no acknowledgment.
Unacknowledged(c) == \A k \in 1..Len(sent[c]) : sent[c][k] # AckMsg

\* C23: the step that handles a register frame puts the entry in the registry
\* and sends nothing and writes no record; an envelope handled while the
\* upsert of an open connection is pending, or when the connection has had no
\* acknowledgment, is sent on it if its entry claims the target address.
C23_EntryBeforeAck ==
  [][/\ \A c \in Conns, d \in DeviceIds, a \in Addrs :
          pending'[Upsert(c, d, a)] = pending[Upsert(c, d, a)] + 1 =>
            /\ Entry(d, c, a) \in Range(clients'[InstOf(c)])
            /\ sent' = sent
            /\ directory' = directory
     /\ \A i \in Instances :
          (Delivered(i) /\ WellFormed(Head(inbox[i]))) =>
            \A c \in Conns :
              ( /\ PendingOn(c) # {} \/ Unacknowledged(c)
                /\ OpenMatches(i, Head(inbox[i]).targetIp, c) # {} ) =>
                /\ Len(sent'[c]) > Len(sent[c])
                /\ sent'[c][Len(sent'[c])] = Head(inbox[i]).payload]_vars

\* The upsert of d1's registration failed, so there is no record and no
\* acknowledgment, and the connection has been sent the alert for a1.
C23_Witness ==
  /\ clients["i1"] = <<Entry("d1", "c1", "a1")>>
  /\ PendingOn("c1") = {}
  /\ directory["d1"] = NoRecord
  /\ readyState["c1"] = "OPEN"
  /\ req.published = <<"a1">>
  /\ sent["c1"] = <<req.payload>>

\* C24: an authenticated connection that holds no registry entry, because it
\* never registered or because its entry was replaced, is swept like any
\* other: a sweep that finds it open and silent leaves it pinged with its flag
\* cleared, and the second sweep after it went silent has terminated it.
C24_SweepCoversUnregistered ==
  \A c \in Conns :
    (listening[c] /\ Holds(clients[InstOf(c)], c) = {}) =>
      /\ (silentSweeps[c] >= 1 /\ readyState[c] = "OPEN") =>
           isAlive[c] = "false" /\ pingState[c] = "sent"
      /\ silentSweeps[c] >= 2 => readyState[c] \in {"CLOSING", "CLOSED"}

\* c1 never sent a register frame; its peer went silent and the second sweep
\* after that terminated it.
C24_Witness ==
  /\ listening["c1"]
  /\ PendingOn("c1") = {}
  /\ Holds(clients["i1"], "c1") = {}
  /\ silentSweeps["c1"] = 2
  /\ killed["c1"]
  /\ readyState["c1"] = "CLOSING"

Next ==
  \/ \E c \in Conns, token \in Tokens : Connect(c, token)
  \/ \E c \in Conns, m \in ClientMsgs : ClientMessage(c, m)
  \/ \E p \in Upserts : UpsertDone(p)
  \/ \E p \in Upserts : UpsertFail(p)
  \/ \E c \in Conns : PeerClose(c)
  \/ \E c \in Conns : CloseEvent(c)
  \/ \E i \in Instances : Sweep(i)
  \/ \E c \in Conns : Pong(c)
  \/ \E c \in Conns : GoSilent(c)
  \/ \E i \in Instances, body \in Bodies : TriggerAlert(i, body)
  \/ PublishOk
  \/ PublishFail
  \/ \E i \in Instances : Deliver(i)
  \/ \E m \in BusMsgs : BusMessage(m)
  \/ \E i \in Instances : ServerClose(i)
  \/ \E c \in Conns : ErrorEvent(c)

Spec == Init /\ [][Next]_vars

====
